---- MODULE Spec2Model ----
(***************************************************************************)
(* Model of mmhuman3d/models/architectures/expressive_mesh_estimator.py:   *)
(* set_requires_grad, SMPLXBodyModelEstimator (train_step, the adversarial *)
(* optimisation routines, the masked loss routines, compute_losses,        *)
(* forward_train) and SMPLXImageBodyModelEstimator.                        *)
(*                                                                         *)
(* Tensors are sequences indexed by the sample of the batch.  Numbers are  *)
(* exact rationals <<numerator, denominator>>.  A loss module built from   *)
(* the configuration (build_loss) is an opaque callable: the value of a    *)
(* loss term is the record of the call that produced it (which module,     *)
(* with which prediction, target and weight tensors) and of the division   *)
(* applied to its result.                                                  *)
(***************************************************************************)
EXTENDS Integers, Sequences, FiniteSets, TLC

VARIABLES
    cfg,            \* the estimator as constructed: which attributes are not None
    requires_grad,  \* requires_grad of every parameter of every network
    call,           \* the last call made to the program, with its arguments
    exc,            \* the exception that call raised, "none" when it returned
    trace,          \* the calls that call made, in program order
    losses,         \* the dict handed to _parse_losses / returned by compute_losses
    opt_steps,      \* number of step() calls of each optimizer over the run
    num_calls,      \* number of train_step calls over the run
    batch,          \* the data batch of the last call
    batch2,         \* a second data batch, for comparing two evaluations
    losses2,        \* compute_losses on the second batch
    lookup          \* the last keypoint looked up by name between two conventions

vars == <<cfg, requires_grad, call, exc, trace, losses, opt_steps, num_calls,
          batch, batch2, losses2, lookup>>

\* ------------------------------------------------------------------ bounds
BatchSize == 2
MaxVal == 1
MaxTrainSteps == 2
MaxDiscStep == 2
MaxListLen == 2
NumParams == 2

\* ------------------------------------------------- shapes of the tensors
NumKeypoints == 4
NumBodyJoints == 2
NumHandJoints == 2
ImgRes == 3

Keypoints == 0 .. (NumKeypoints - 1)
Samples == 1 .. BatchSize
Vals == 0 .. MaxVal

\* ---------------------------------------------------------------- numbers
Abs(n) == IF n < 0 THEN -n ELSE n

RECURSIVE GCD(_, _)
GCD(a, b) == IF b = 0 THEN a ELSE GCD(b, a % b)

\* The rational n/d (d > 0) in lowest terms.
Rat(n, d) == LET g == GCD(Abs(n), d) IN <<n \div g, d \div g>>

RSub(a, b) == Rat(a[1] * b[2] - b[1] * a[2], a[2] * b[2])
RAdd(a, b) == Rat(a[1] * b[2] + b[1] * a[2], a[2] * b[2])
RMul(a, b) == Rat(a[1] * b[1], a[2] * b[2])
RDivInt(a, n) == Rat(a[1], a[2] * n)

RECURSIVE RSum(_)
RSum(s) == IF s = <<>> THEN Rat(0, 1) ELSE RAdd(s[1], RSum(Tail(s)))

\* tensor.mean over an axis given as the sequence of its entries
Mean(s) == RDivInt(RSum(s), Len(s))

\* ---------------------------------------------------------------- tensors
None == <<>>
Some(x) == <<x>>

\* has == 1 : the boolean mask, as the increasing sequence of the sample
\* indices it selects.  A missing flag tensor (None == 1 is False) selects
\* an empty leading axis.
target_idxs_of(has, n) ==
    IF has = None THEN <<>>
    ELSE SelectSeq([b \in 1 .. n |-> b], LAMBDA b : has[1][b] = 1)

\* t[target_idxs]
Masked(t, idxs) == [i \in 1 .. Len(idxs) |-> t[idxs[i]]]

\* t[:, part] for a list of keypoint indices and one sample's row
Part(row, part) == [i \in 1 .. Len(part) |-> row[part[i]]]

\* ----------------------------------------------------------- loss values
\* torch.Tensor([0]): the zero loss, produced without any loss module
ZeroLoss == [fn |-> "zero", pred |-> <<>>, gt |-> <<>>, weight |-> <<>>,
             div |-> <<>>]

\* self.loss_X(pred, gt, weight=weight): the value of an opaque module call
LossCall(fn, pred, gt, weight) ==
    [fn |-> fn, pred |-> pred, gt |-> gt, weight |-> weight, div |-> <<>>]

\* loss / n  (loss /= n)
DivLoss(loss, n) == [loss EXCEPT !.div = Append(@, n)]

NoWeight == <<>>

\* ------------------------------------------- modules outside this file
\* get_keypoint_idxs_by_part(part, self.convention): the keypoint indices
\* of a part in the estimator's convention
get_keypoint_idxs_by_part(part) ==
    CASE part = "head" -> <<2, 3>>
      [] part = "right_hand" -> <<0, 1>>
      [] part = "left_hand" -> <<1, 2>>

\* batch_rodrigues: axis-angle vectors to rotation matrices, one by one
batch_rodrigues(aa) == <<"exp", aa>>

\* weak_perspective_projection(points, scale, translation), per sample:
\* scale * (points + translation)
weak_perspective_projection(points, pred_cam) ==
    [b \in 1 .. Len(points) |->
        [k \in Keypoints |->
            RMul(pred_cam[b].scale, RAdd(points[b][k], pred_cam[b].trans))]]

\* self.body_model_train(**pred_param)['joints'], per sample
body_model_train(pred_param) ==
    [b \in 1 .. Len(pred_param["betas"]) |->
        [k \in Keypoints |-> Rat(pred_param["betas"][b] * (k + 1), 1)]]

\* ------------------------------------------------------------ pose2rotmat
\* A pose tensor is [ndim, data]: ndim 3 holds axis-angle vectors (B, J, 3),
\* ndim 4 rotation matrices (B, J, 3, 3); data[b][j] is one joint.
pose2rotmat(pred_pose) ==
    IF pred_pose.ndim = 3
    THEN [ndim |-> 4,
          data |-> [b \in 1 .. Len(pred_pose.data) |->
                      [j \in 1 .. Len(pred_pose.data[b]) |->
                          batch_rodrigues(pred_pose.data[b][j])]]]
    ELSE pred_pose

\* batch_rodrigues(gt_pose.view(-1, 3)).view(-1, num_joints, 3, 3)
gt_rotmat_of(gt_pose) ==
    [b \in 1 .. Len(gt_pose) |->
        [j \in 1 .. Len(gt_pose[b]) |-> batch_rodrigues(gt_pose[b][j])]]

\* ----------------------------------------------------- the loss routines
\* tensor[target_idxs].numel() for a tensor with `inner` entries per sample
Numel(idxs, inner) == Len(idxs) * inner

\* compute_keypoints3d_loss without the test for an empty selection
compute_keypoints3d_loss_no_guard(pred_keypoints3d, gt_keypoints3d, has_keypoints3d) ==
    LET n == Len(gt_keypoints3d)
        keypoints3d_conf ==
            [b \in 1 .. n |-> [k \in Keypoints |-> Rat(gt_keypoints3d[b][k].conf, 1)]]
        gt_xyz == [b \in 1 .. n |-> [k \in Keypoints |-> Rat(gt_keypoints3d[b][k].xyz, 1)]]
        target_idxs == target_idxs_of(has_keypoints3d, n)
        pred_sel == Masked(pred_keypoints3d, target_idxs)
        gt_sel == Masked(gt_xyz, target_idxs)
        Centre(t) == [i \in 1 .. Len(t) |->
                        LET pelvis == Mean(<<t[i][1], t[i][2]>>)
                        IN  [k \in Keypoints |-> RSub(t[i][k], pelvis)]]
    IN  DivLoss(LossCall("loss_keypoints3d", Centre(pred_sel), Centre(gt_sel),
                         Masked(keypoints3d_conf, target_idxs)),
                Len(gt_sel))

compute_keypoints3d_loss(pred_keypoints3d, gt_keypoints3d, has_keypoints3d) ==
    LET n == Len(gt_keypoints3d)
        keypoints3d_conf ==
            [b \in 1 .. n |-> [k \in Keypoints |-> Rat(gt_keypoints3d[b][k].conf, 1)]]
        gt_xyz == [b \in 1 .. n |-> [k \in Keypoints |-> Rat(gt_keypoints3d[b][k].xyz, 1)]]
        target_idxs == target_idxs_of(has_keypoints3d, n)
        pred_sel == Masked(pred_keypoints3d, target_idxs)
        gt_sel == Masked(gt_xyz, target_idxs)
        Centre(t) == [i \in 1 .. Len(t) |->
                        LET pelvis == Mean(<<t[i][1], t[i][2]>>)
                        IN  [k \in Keypoints |-> RSub(t[i][k], pelvis)]]
    IN  IF Numel(target_idxs, NumKeypoints * 3) = 0
        THEN ZeroLoss
        ELSE DivLoss(LossCall("loss_keypoints3d", Centre(pred_sel), Centre(gt_sel),
                              Masked(keypoints3d_conf, target_idxs)),
                     Len(gt_sel))

compute_keypoints2d_loss(pred_keypoints3d, pred_cam, gt_keypoints2d, img_res, has_keypoints2d) ==
    LET n == Len(gt_keypoints2d)
        keypoints2d_conf ==
            [b \in 1 .. n |-> [k \in Keypoints |-> Rat(gt_keypoints2d[b][k].conf, 1)]]
        target_idxs == target_idxs_of(has_keypoints2d, n)
        pred_keypoints2d == weak_perspective_projection(pred_keypoints3d, pred_cam)
        gt_xy == [b \in 1 .. n |->
                    [k \in Keypoints |->
                        RSub(Rat(2 * gt_keypoints2d[b][k].xy, img_res - 1), Rat(1, 1))]]
    IN  IF Numel(target_idxs, NumKeypoints * 2) = 0
        THEN ZeroLoss
        ELSE DivLoss(LossCall("loss_keypoints2d",
                              Masked(pred_keypoints2d, target_idxs),
                              Masked(gt_xy, target_idxs),
                              Masked(keypoints2d_conf, target_idxs)),
                     Len(Masked(gt_xy, target_idxs)))

compute_smplx_body_pose_loss(pred_rotmat, gt_pose, has_smplx_body_pose) ==
    LET target_idxs == target_idxs_of(Some(has_smplx_body_pose), Len(gt_pose))
    IN  IF Numel(target_idxs, NumBodyJoints * 3) = 0
        THEN ZeroLoss
        ELSE LossCall("loss_smplx_body_pose",
                      Masked(pred_rotmat.data, target_idxs),
                      Masked(gt_rotmat_of(gt_pose), target_idxs),
                      NoWeight)

compute_smplx_global_orient_loss(pred_rotmat, gt_global_orient, has_smplx_global_orient) ==
    LET target_idxs == target_idxs_of(Some(has_smplx_global_orient),
                                      Len(gt_global_orient))
    IN  IF Numel(target_idxs, 3) = 0
        THEN ZeroLoss
        ELSE LossCall("loss_smplx_global_orient",
                      Masked(pred_rotmat.data, target_idxs),
                      Masked(gt_rotmat_of(gt_global_orient), target_idxs),
                      NoWeight)

\* compute_smplx_jaw_pose_loss handing the loss module the confidences of
\* the whole batch instead of those of the selected samples
compute_smplx_jaw_pose_loss_conf_unmasked(pred_rotmat, gt_jaw_pose, has_smplx_jaw_pose, face_conf) ==
    LET target_idxs == target_idxs_of(Some(has_smplx_jaw_pose), Len(gt_jaw_pose))
        conf == [b \in 1 .. Len(face_conf) |-> <<Mean(face_conf[b])>>]
    IN  IF Numel(target_idxs, 3) = 0
        THEN ZeroLoss
        ELSE LossCall("loss_smplx_jaw_pose",
                      Masked(pred_rotmat.data, target_idxs),
                      Masked(gt_rotmat_of(gt_jaw_pose), target_idxs),
                      conf)

compute_smplx_jaw_pose_loss(pred_rotmat, gt_jaw_pose, has_smplx_jaw_pose, face_conf) ==
    LET target_idxs == target_idxs_of(Some(has_smplx_jaw_pose), Len(gt_jaw_pose))
        \* face_conf.mean(axis=1).view(-1, 1, 1, 1)
        conf == [b \in 1 .. Len(face_conf) |-> <<Mean(face_conf[b])>>]
    IN  IF Numel(target_idxs, 3) = 0
        THEN ZeroLoss
        ELSE LossCall("loss_smplx_jaw_pose",
                      Masked(pred_rotmat.data, target_idxs),
                      Masked(gt_rotmat_of(gt_jaw_pose), target_idxs),
                      Masked(conf, target_idxs))

compute_smplx_hand_pose_loss(pred_rotmat, gt_hand_pose, has_smplx_hand_pose, hand_conf) ==
    LET joint_num == Len(pred_rotmat.data[1])
        target_idxs == target_idxs_of(Some(has_smplx_hand_pose), Len(gt_hand_pose))
        \* hand_conf.mean(axis=1, keepdim=True).expand(-1, joint_num)
        conf == [b \in 1 .. Len(hand_conf) |->
                    [j \in 1 .. joint_num |-> Mean(hand_conf[b])]]
    IN  IF Numel(target_idxs, NumHandJoints * 3) = 0
        THEN ZeroLoss
        ELSE LossCall("loss_smplx_hand_pose",
                      Masked(pred_rotmat.data, target_idxs),
                      Masked(gt_rotmat_of(gt_hand_pose), target_idxs),
                      Masked(conf, target_idxs))

\* compute_smplx_betas_loss handing the loss module the whole batch
compute_smplx_betas_loss_unmasked(pred_betas, gt_betas, has_smplx_betas) ==
    LET target_idxs == target_idxs_of(Some(has_smplx_betas), Len(gt_betas))
    IN  IF Numel(target_idxs, 1) = 0
        THEN ZeroLoss
        ELSE DivLoss(LossCall("loss_smplx_betas", pred_betas, gt_betas, NoWeight),
                     Len(Masked(gt_betas, target_idxs)))

compute_smplx_betas_loss(pred_betas, gt_betas, has_smplx_betas) ==
    LET target_idxs == target_idxs_of(Some(has_smplx_betas), Len(gt_betas))
    IN  IF Numel(target_idxs, 1) = 0
        THEN ZeroLoss
        ELSE DivLoss(LossCall("loss_smplx_betas",
                              Masked(pred_betas, target_idxs),
                              Masked(gt_betas, target_idxs),
                              NoWeight),
                     Len(Masked(gt_betas, target_idxs)))

compute_smplx_betas_prior_loss(pred_betas) ==
    LossCall("loss_smplx_betas_piror", pred_betas, <<>>, NoWeight)

compute_smplx_expression_loss(pred_expression, gt_expression, has_smplx_expression, face_conf) ==
    LET target_idxs == target_idxs_of(Some(has_smplx_expression), Len(gt_expression))
        \* face_conf.mean(axis=1).view(-1, 1)
        conf == [b \in 1 .. Len(face_conf) |-> <<Mean(face_conf[b])>>]
    IN  IF Numel(target_idxs, 1) = 0
        THEN ZeroLoss
        ELSE DivLoss(LossCall("loss_smplx_expression",
                              Masked(pred_expression, target_idxs),
                              Masked(gt_expression, target_idxs),
                              Masked(conf, target_idxs)),
                     Len(Masked(gt_expression, target_idxs)))

compute_camera_loss(cameras) ==
    LossCall("loss_camera", cameras, <<>>, NoWeight)

\* --------------------------------------------------------- compute_losses
\* The keys compute_losses puts into its result, for the loss modules that
\* are not None and the parameters the head predicts.
LossKeys(self, pred_param) ==
      (IF "loss_keypoints3d" \in self.losses THEN {"keypoints3d_loss"} ELSE {})
    \cup (IF "loss_keypoints2d" \in self.losses THEN {"keypoints2d_loss"} ELSE {})
    \cup (IF "loss_smplx_global_orient" \in self.losses
          THEN {"smplx_global_orient"} ELSE {})
    \cup (IF "loss_smplx_body_pose" \in self.losses
          THEN {"smplx_body_pose_loss"} ELSE {})
    \cup (IF "loss_smplx_jaw_pose" \in self.losses
          THEN {"smplx_jaw_pose_loss"} ELSE {})
    \cup (IF "loss_smplx_hand_pose" \in self.losses
          THEN {"smplx_right_hand_pose_loss"}
               \cup (IF "left_hand_pose" \in DOMAIN pred_param
                     THEN {"smplx_left_hand_pose_loss"} ELSE {})
          ELSE {})
    \cup (IF "loss_smplx_betas" \in self.losses THEN {"smplx_betas_loss"} ELSE {})
    \cup (IF "loss_smplx_expression" \in self.losses
          THEN {"smplx_expression_loss"} ELSE {})
    \cup (IF "loss_smplx_betas_piror" \in self.losses
          THEN {"smplx_betas_prior_loss"} ELSE {})
    \cup (IF "loss_camera" \in self.losses THEN {"camera_loss"} ELSE {})

\* targets[key].squeeze(-1)
Squeeze(t) == [b \in 1 .. Len(t) |-> t[b][1]]

\* gt_keypoints2d[:, idxs, 2]
ConfOfPart(gt_keypoints2d, idxs) ==
    [b \in 1 .. Len(gt_keypoints2d) |->
        Part([k \in Keypoints |-> Rat(gt_keypoints2d[b][k].conf, 1)], idxs)]

\* Returns [exc, losses]: the exception raised ("none" when it returns) and
\* the dict of loss terms.
compute_losses(self, predictions, targets) ==
    LET pred_param == predictions.pred_param
        pred_cam == predictions.pred_cam
        gt_keypoints3d == targets["keypoints3d"]
        gt_keypoints2d == targets["keypoints2d"]
        \* bound only when self.body_model_train is not None
        pred_keypoints3d == body_model_train(pred_param)
        has_keypoints3d ==
            IF "has_keypoints3d" \in DOMAIN targets
            THEN Some(Squeeze(targets["has_keypoints3d"])) ELSE None
        has_keypoints2d ==
            IF "has_keypoints2d" \in DOMAIN targets
            THEN Some(Squeeze(targets["has_keypoints2d"])) ELSE None
        Term(k) ==
            CASE k = "keypoints3d_loss" ->
                    compute_keypoints3d_loss(pred_keypoints3d, gt_keypoints3d,
                                             has_keypoints3d)
              [] k = "keypoints2d_loss" ->
                    compute_keypoints2d_loss(pred_keypoints3d, pred_cam,
                                             gt_keypoints2d, targets["img"].res,
                                             has_keypoints2d)
              [] k = "smplx_global_orient" ->
                    compute_smplx_global_orient_loss(
                        pose2rotmat(pred_param["global_orient"]),
                        targets["smplx_global_orient"],
                        Squeeze(targets["has_smplx_global_orient"]))
              [] k = "smplx_body_pose_loss" ->
                    compute_smplx_body_pose_loss(
                        pose2rotmat(pred_param["body_pose"]),
                        targets["smplx_body_pose"],
                        Squeeze(targets["has_smplx_body_pose"]))
              [] k = "smplx_jaw_pose_loss" ->
                    compute_smplx_jaw_pose_loss(
                        pose2rotmat(pred_param["jaw_pose"]),
                        targets["smplx_jaw_pose"],
                        Squeeze(targets["has_smplx_jaw_pose"]),
                        ConfOfPart(gt_keypoints2d, get_keypoint_idxs_by_part("head")))
              [] k = "smplx_right_hand_pose_loss" ->
                    compute_smplx_hand_pose_loss(
                        pose2rotmat(pred_param["right_hand_pose"]),
                        targets["smplx_right_hand_pose"],
                        Squeeze(targets["has_smplx_right_hand_pose"]),
                        ConfOfPart(gt_keypoints2d,
                                   get_keypoint_idxs_by_part("right_hand")))
              [] k = "smplx_left_hand_pose_loss" ->
                    compute_smplx_hand_pose_loss(
                        pose2rotmat(pred_param["left_hand_pose"]),
                        targets["smplx_left_hand_pose"],
                        Squeeze(targets["has_smplx_left_hand_pose"]),
                        ConfOfPart(gt_keypoints2d,
                                   get_keypoint_idxs_by_part("left_hand")))
              [] k = "smplx_betas_loss" ->
                    compute_smplx_betas_loss(pred_param["betas"],
                                             targets["smplx_betas"],
                                             Squeeze(targets["has_smplx_betas"]))
              [] k = "smplx_expression_loss" ->
                    compute_smplx_expression_loss(
                        pred_param["expression"],
                        targets["smplx_expression"],
                        Squeeze(targets["has_smplx_expression"]),
                        ConfOfPart(gt_keypoints2d, get_keypoint_idxs_by_part("head")))
              [] k = "smplx_betas_prior_loss" ->
                    compute_smplx_betas_prior_loss(pred_param["betas"])
              [] k = "camera_loss" ->
                    compute_camera_loss(pred_cam)
    IN  IF  /\ ~self.body_model_train
            /\ self.losses \cap {"loss_keypoints3d", "loss_keypoints2d"} # {}
        THEN [exc |-> "UnboundLocalError", losses |-> [k \in {} |-> ZeroLoss]]
        ELSE [exc |-> "none",
              losses |-> [k \in LossKeys(self, pred_param) |-> Term(k)]]

\* ------------------------------------------------------------ the inputs
LossAttrs == {"loss_keypoints3d", "loss_keypoints2d", "loss_smplx_global_orient",
              "loss_smplx_body_pose", "loss_smplx_jaw_pose", "loss_smplx_hand_pose",
              "loss_smplx_betas", "loss_smplx_expression", "loss_smplx_betas_piror",
              "loss_camera"}

FlagKeys == {"has_keypoints3d", "has_keypoints2d", "has_smplx_global_orient",
             "has_smplx_body_pose", "has_smplx_jaw_pose",
             "has_smplx_right_hand_pose", "has_smplx_left_hand_pose",
             "has_smplx_betas", "has_smplx_expression"}

OptionalKeys == {"has_keypoints3d", "has_keypoints2d"}

DataKeys == {"img", "features", "keypoints3d", "keypoints2d", "smplx_global_orient",
             "smplx_body_pose", "smplx_jaw_pose", "smplx_right_hand_pose",
             "smplx_left_hand_pose", "smplx_betas", "smplx_expression"}

\* Confidence channels: every keypoint seen, or every other keypoint seen.
ConfPatterns == {[k \in Keypoints |-> 1], [k \in Keypoints |-> k % 2]}

\* The data batch a dataset hands to the estimator.  bt.samples[b] gives the
\* image, the annotation, the keypoint confidences and the validity flags of
\* sample b; bt.kp_flags tells whether the has_keypoints* keys are present.
DataBatch(bt) ==
    LET n == Len(bt.samples)
        S(b) == bt.samples[b]
    IN  [key \in (DataKeys \cup FlagKeys)
                    \ (IF bt.kp_flags THEN {} ELSE OptionalKeys) |->
            CASE key = "img" -> [res |-> ImgRes, data |-> [b \in 1 .. n |-> S(b).img]]
              [] key = "features" -> [b \in 1 .. n |-> S(b).img]
              [] key = "keypoints3d" ->
                    [b \in 1 .. n |->
                        [k \in Keypoints |->
                            [xyz |-> S(b).gt + k,
                             conf |-> S(b).conf[(k + 1) % NumKeypoints]]]]
              [] key = "keypoints2d" ->
                    [b \in 1 .. n |->
                        [k \in Keypoints |->
                            [xy |-> S(b).gt + 2 * k, conf |-> S(b).conf[k]]]]
              [] key = "smplx_global_orient" -> [b \in 1 .. n |-> <<S(b).gt>>]
              [] key = "smplx_body_pose" ->
                    [b \in 1 .. n |-> [j \in 1 .. NumBodyJoints |-> S(b).gt + j]]
              [] key = "smplx_jaw_pose" -> [b \in 1 .. n |-> <<S(b).gt + 1>>]
              [] key = "smplx_right_hand_pose" ->
                    [b \in 1 .. n |-> [j \in 1 .. NumHandJoints |-> S(b).gt + 2 * j]]
              [] key = "smplx_left_hand_pose" ->
                    [b \in 1 .. n |-> [j \in 1 .. NumHandJoints |-> S(b).gt + 3 * j]]
              [] key = "smplx_betas" -> [b \in 1 .. n |-> S(b).gt]
              [] key = "smplx_expression" -> [b \in 1 .. n |-> S(b).gt + 1]
              [] key \in FlagKeys -> [b \in 1 .. n |-> <<S(b).has[key]>>]]

\* self.backbone(img), self.neck(features): opaque, sample by sample
backbone_forward(img) == img.data
neck_forward(features) == features

\* self.head(features): the predicted parameters and camera of every sample
head_forward(self, features) ==
    LET n == Len(features)
        Elem(v) == IF self.head_ndim = 3 THEN v ELSE batch_rodrigues(v)
        Pose(J, m) == [ndim |-> self.head_ndim,
                       data |-> [b \in 1 .. n |->
                                    [j \in 1 .. J |-> Elem(features[b] + m * j)]]]
    IN  [pred_param |->
            [key \in {"global_orient", "body_pose", "jaw_pose", "right_hand_pose",
                      "betas", "expression"}
                     \cup (IF self.head_left_hand THEN {"left_hand_pose"} ELSE {}) |->
                CASE key = "global_orient" -> Pose(1, 1)
                  [] key = "body_pose" -> Pose(NumBodyJoints, 1)
                  [] key = "jaw_pose" -> Pose(1, 2)
                  [] key = "right_hand_pose" -> Pose(NumHandJoints, 2)
                  [] key = "left_hand_pose" -> Pose(NumHandJoints, 3)
                  [] key = "betas" -> features
                  [] key = "expression" -> [b \in 1 .. n |-> features[b] + 1]],
         pred_cam |-> [b \in 1 .. n |->
                        [scale |-> Rat(features[b] + 1, 1),
                         trans |-> Rat(features[b], 1)]]]

\* The flags a loss module reads.
FlagsOf(self, attr) ==
    CASE attr = "loss_keypoints3d" -> {"has_keypoints3d"}
      [] attr = "loss_keypoints2d" -> {"has_keypoints2d"}
      [] attr = "loss_smplx_global_orient" -> {"has_smplx_global_orient"}
      [] attr = "loss_smplx_body_pose" -> {"has_smplx_body_pose"}
      [] attr = "loss_smplx_jaw_pose" -> {"has_smplx_jaw_pose"}
      [] attr = "loss_smplx_hand_pose" ->
            {"has_smplx_right_hand_pose"}
            \cup (IF self.head_left_hand THEN {"has_smplx_left_hand_pose"} ELSE {})
      [] attr = "loss_smplx_betas" -> {"has_smplx_betas"}
      [] attr = "loss_smplx_expression" -> {"has_smplx_expression"}
      [] OTHER -> {}

ReadFlags(self) == UNION {FlagsOf(self, a) : a \in self.losses \cap LossAttrs}

\* One sample of a batch: any image, annotation, confidences and flags.
\* The flags the estimator does not read are 0.
SampleSet(self) ==
    {[img |-> i, gt |-> g, conf |-> c,
      has |-> [f \in FlagKeys |-> IF f \in F THEN 1 ELSE 0]] :
        i \in Vals, g \in Vals, c \in ConfPatterns, F \in SUBSET ReadFlags(self)}

\* The batches of the first evaluation: the annotation of a sample mirrors
\* its image, and every other keypoint is hidden in the odd images.
BatchSet(self) ==
    [samples : [Samples -> {s \in SampleSet(self) :
                                /\ s.gt = MaxVal - s.img
                                /\ s.conf = [k \in Keypoints |->
                                                IF s.img % 2 = 0 THEN 1 ELSE k % 2]}],
     kp_flags : IF ReadFlags(self) \cap OptionalKeys = {} THEN {TRUE} ELSE BOOLEAN]

\* The batches that differ from bt in the image, the annotation or the
\* confidences of one sample, and agree with it on everything else.
OneSampleChanged(self, bt) ==
    UNION {{[bt EXCEPT !.samples[b] = s] :
                s \in {t \in SampleSet(self) :
                        /\ t.has = bt.samples[b].has
                        /\ Cardinality({f \in {"img", "gt", "conf"} :
                                            t[f] # bt.samples[b][f]}) = 1}} :
           b \in Samples}

\* ------------------------------------------------------------- estimators
Nets == {"backbone", "neck", "head", "disc", "body_model_train", "body_model_test"}
Params == 1 .. NumParams
OptKeys == {"backbone", "neck", "head", "disc"}

\* An estimator with a backbone and a head and nothing else.
BaseCfg ==
    [backbone |-> TRUE, neck |-> FALSE, head |-> TRUE, disc |-> FALSE,
     body_model_train |-> TRUE, body_model_test |-> TRUE, losses |-> {},
     head_ndim |-> 3, head_left_hand |-> FALSE, disc_step |-> 1]

\* The estimators whose losses are compared: one loss module each, and the
\* pairs that share an input.
LossCfgs ==
    {[BaseCfg EXCEPT !.losses = {a}] : a \in LossAttrs}
    \cup {[BaseCfg EXCEPT !.losses = {"loss_smplx_hand_pose"}, !.head_left_hand = TRUE],
          [BaseCfg EXCEPT !.losses = {"loss_smplx_body_pose"}, !.head_ndim = 4],
          [BaseCfg EXCEPT !.losses = {"loss_keypoints3d"}, !.body_model_train = FALSE],
          [BaseCfg EXCEPT !.losses = {"loss_smplx_betas", "loss_smplx_expression"}],
          [BaseCfg EXCEPT !.losses = {"loss_smplx_betas", "loss_smplx_betas_piror"}],
          [BaseCfg EXCEPT !.losses = {"loss_smplx_expression", "loss_camera"}]}

\* ------------------------------------------------------ set_requires_grad
\* The nets argument: a single network (or None) when ~nets.list, a Python
\* list of networks and Nones otherwise.
Single(net) == [list |-> FALSE, net |-> net, items |-> <<>>]
List(items) == [list |-> TRUE, net |-> "None", items |-> items]

\* for param in net.parameters(): param.requires_grad = requires_grad
SetNet(rg, net, v) ==
    IF net # "None" THEN [rg EXCEPT ![net] = [p \in Params |-> v]] ELSE rg

RECURSIVE ForNets(_, _, _)
ForNets(rg, nets, v) ==
    IF nets = <<>> THEN rg ELSE ForNets(SetNet(rg, Head(nets), v), Tail(nets), v)

\* set_requires_grad that forgets to wrap a single network into a list
set_requires_grad_no_wrap(rg, nets, v) ==
    ForNets(rg, nets.items, v)

\* Returns requires_grad of every parameter after the call.
set_requires_grad(rg, nets, v) ==
    ForNets(rg, IF ~nets.list THEN <<nets.net>> ELSE nets.items, v)

\* self.<attr>: the network, or None when it was not configured
Attr(self, name) == IF self[name] THEN name ELSE "None"

\* After __init__: set_requires_grad(self.body_model_train, False) and
\* set_requires_grad(self.body_model_test, False); every other parameter
\* keeps the default requires_grad of a new parameter.
Construct(self) ==
    set_requires_grad(
        set_requires_grad([n \in Nets |-> [p \in Params |-> TRUE]],
                          Single(Attr(self, "body_model_train")), FALSE),
        Single(Attr(self, "body_model_test")), FALSE)

NoCall == [op |-> "none", args |-> {}]
NoLosses == [k \in {} |-> ZeroLoss]
NoBatch == [samples |-> <<>>, kp_flags |-> TRUE]
NoLookup == [src |-> "none", dst |-> "none", i |-> -1, name |-> "none",
             src_idx |-> -1, dst_idx |-> -1]

\* ------------------------------------------------ compute_losses, twice
InitLoss ==
    /\ cfg \in LossCfgs
    /\ batch \in BatchSet(cfg)
    /\ batch2 \in OneSampleChanged(cfg, batch)
    /\ requires_grad = Construct(cfg)
    /\ call = NoCall
    /\ exc = "none"
    /\ trace = <<>>
    /\ losses = NoLosses
    /\ losses2 = NoLosses
    /\ opt_steps = [k \in OptKeys |-> 0]
    /\ num_calls = 0
    /\ lookup = NoLookup

\* compute_losses(predictions, targets) on the predictions and targets of
\* both batches
ComputeLossesCall ==
    /\ call.op = "none"
    /\ LET r1 == compute_losses(cfg, head_forward(cfg, DataBatch(batch)["features"]),
                                DataBatch(batch))
           r2 == compute_losses(cfg, head_forward(cfg, DataBatch(batch2)["features"]),
                                DataBatch(batch2))
       IN  /\ losses' = r1.losses
           /\ losses2' = r2.losses
           /\ exc' = r1.exc
    /\ call' = [op |-> "compute_losses", args |-> {}]
    /\ UNCHANGED <<cfg, requires_grad, trace, opt_steps, num_calls, batch, batch2, lookup>>

NextLoss == ComputeLossesCall

SpecLoss == InitLoss /\ [][NextLoss]_vars

\* ------------------------------------------------ properties of the losses
\* The validity flag of a loss term, "none" for a term that has none.
FlagOfTerm(k) ==
    CASE k = "keypoints3d_loss" -> "has_keypoints3d"
      [] k = "keypoints2d_loss" -> "has_keypoints2d"
      [] k = "smplx_global_orient" -> "has_smplx_global_orient"
      [] k = "smplx_body_pose_loss" -> "has_smplx_body_pose"
      [] k = "smplx_jaw_pose_loss" -> "has_smplx_jaw_pose"
      [] k = "smplx_right_hand_pose_loss" -> "has_smplx_right_hand_pose"
      [] k = "smplx_left_hand_pose_loss" -> "has_smplx_left_hand_pose"
      [] k = "smplx_betas_loss" -> "has_smplx_betas"
      [] k = "smplx_expression_loss" -> "has_smplx_expression"
      [] OTHER -> "none"

MaskedTerms == {"keypoints3d_loss", "keypoints2d_loss", "smplx_global_orient",
                "smplx_body_pose_loss", "smplx_jaw_pose_loss",
                "smplx_right_hand_pose_loss", "smplx_left_hand_pose_loss",
                "smplx_betas_loss", "smplx_expression_loss"}

\* The samples of bt whose validity flag for term k equals 1.
Flagged(k, bt) ==
    IF FlagOfTerm(k) = "none" \/ (FlagOfTerm(k) \in OptionalKeys /\ ~bt.kp_flags)
    THEN {}
    ELSE {b \in 1 .. Len(bt.samples) : bt.samples[b].has[FlagOfTerm(k)] = 1}

\* The samples on which the two batches differ.
Differing == {b \in 1 .. Len(batch.samples) : batch.samples[b] # batch2.samples[b]}

Computed == call.op = "compute_losses" /\ exc = "none"

\* C1 as stated: every term of the result, the camera and betas-prior terms
\* included, has the same value on two batches that differ only in samples
\* whose flag for the term is not 1.
C1_EveryTermMasked ==
    Computed =>
        \A k \in DOMAIN losses :
            Differing \cap Flagged(k, batch) = {} => losses[k] = losses2[k]

\* C1, amended: every term that has a validity flag has the same value on
\* two batches that agree on all samples whose flag for the term is 1; the
\* camera and betas-prior terms have no flag.
C1_FlaggedTermsMasked ==
    Computed =>
        \A k \in DOMAIN losses \cap MaskedTerms :
            Differing \cap Flagged(k, batch) = {} => losses[k] = losses2[k]

\* A masked term computed from a flagged sample while the other sample,
\* not flagged, differs between the two batches.
C1_Witness ==
    /\ Computed
    /\ \E k \in DOMAIN losses \cap MaskedTerms :
        /\ Flagged(k, batch) # {}
        /\ Differing # {}
        /\ Differing \cap Flagged(k, batch) = {}
        /\ losses[k] # ZeroLoss
        /\ losses[k] = losses2[k]

\* C2: a masked routine whose batch has no sample with flag 1 returns the
\* zero loss, made without a loss module and without a division; and no
\* term is ever divided by 0.
C2_EmptySelectionIsZero ==
    Computed =>
        \A k \in DOMAIN losses :
            /\ (k \in MaskedTerms /\ Flagged(k, batch) = {}) =>
                    /\ losses[k] = ZeroLoss
                    /\ losses[k].fn = "zero"
                    /\ losses[k].div = <<>>
            /\ \A i \in 1 .. Len(losses[k].div) : losses[k].div[i] # 0

\* A masked routine ran on a batch none of whose samples is flagged.
C2_Witness ==
    /\ Computed
    /\ \E k \in DOMAIN losses \cap MaskedTerms :
        /\ Flagged(k, batch) = {}
        /\ losses[k] = ZeroLoss
    /\ \E k \in DOMAIN losses : losses[k].div # <<>>

\* The terms whose loss module is given a weight.
ConfWeightedTerms == {"keypoints3d_loss", "keypoints2d_loss", "smplx_jaw_pose_loss",
                      "smplx_right_hand_pose_loss", "smplx_left_hand_pose_loss",
                      "smplx_expression_loss"}

MeanWeightedTerms == {"smplx_jaw_pose_loss", "smplx_right_hand_pose_loss",
                      "smplx_left_hand_pose_loss", "smplx_expression_loss"}

\* The part whose 2D keypoint confidences weigh a term.
PartOfTerm(k) ==
    CASE k = "smplx_right_hand_pose_loss" -> <<0, 1>>
      [] k = "smplx_left_hand_pose_loss" -> <<1, 2>>
      [] OTHER -> <<2, 3>>

RECURSIVE Ascending(_)
Ascending(S) ==
    IF S = {} THEN <<>>
    ELSE LET m == CHOOSE x \in S : \A y \in S : x <= y
         IN  <<m>> \o Ascending(S \ {m})

\* The trailing channel of the ground-truth keypoints of sample b.
Conf3d(bt, b, kp) == DataBatch(bt)["keypoints3d"][b][kp].conf
Conf2d(bt, b, kp) == DataBatch(bt)["keypoints2d"][b][kp].conf

RECURSIVE SumConf2d(_, _, _)
SumConf2d(bt, b, part) ==
    IF part = <<>> THEN 0
    ELSE Conf2d(bt, b, Head(part)) + SumConf2d(bt, b, Tail(part))

\* C3 as stated: in every confidence-weighted term the weight of joint j of
\* sample b is the confidence of one keypoint of sample b: the joint's own
\* for the keypoint terms, a keypoint of the part for the pose and
\* expression terms.
C3_WeightIsOwnConfidence ==
    Computed =>
        \A k \in DOMAIN losses \cap ConfWeightedTerms :
            losses[k] # ZeroLoss =>
                LET sel == Ascending(Flagged(k, batch))
                    w == losses[k].weight
                IN  /\ Len(w) = Len(sel)
                    /\ \A i \in 1 .. Len(sel) :
                        \A j \in DOMAIN w[i] :
                            CASE k = "keypoints3d_loss" ->
                                    w[i][j] = <<Conf3d(batch, sel[i], j), 1>>
                              [] k = "keypoints2d_loss" ->
                                    w[i][j] = <<Conf2d(batch, sel[i], j), 1>>
                              [] OTHER ->
                                    \E m \in 1 .. Len(PartOfTerm(k)) :
                                        w[i][j] = <<Conf2d(batch, sel[i],
                                                           PartOfTerm(k)[m]), 1>>

\* C3, amended: the keypoint terms weigh the error of joint j of sample b by
\* that joint's own confidence; the jaw pose, hand pose and expression terms
\* weigh every joint (coefficient) of sample b by the mean of the 2D
\* keypoint confidences of the head (hand) part of sample b.
C3_WeightIsConfidenceOrPartMean ==
    Computed =>
        \A k \in DOMAIN losses \cap ConfWeightedTerms :
            losses[k] # ZeroLoss =>
                LET sel == Ascending(Flagged(k, batch))
                    w == losses[k].weight
                IN  /\ Len(w) = Len(sel)
                    /\ \A i \in 1 .. Len(sel) :
                        /\ k = "keypoints3d_loss" => DOMAIN w[i] = Keypoints
                        /\ k = "keypoints2d_loss" => DOMAIN w[i] = Keypoints
                        /\ k \in {"smplx_jaw_pose_loss", "smplx_expression_loss"} =>
                                DOMAIN w[i] = {1}
                        /\ k \in {"smplx_right_hand_pose_loss",
                                  "smplx_left_hand_pose_loss"} =>
                                DOMAIN w[i] = 1 .. NumHandJoints
                        /\ \A j \in DOMAIN w[i] :
                            CASE k = "keypoints3d_loss" ->
                                    w[i][j] = <<Conf3d(batch, sel[i], j), 1>>
                              [] k = "keypoints2d_loss" ->
                                    w[i][j] = <<Conf2d(batch, sel[i], j), 1>>
                              [] OTHER ->
                                    w[i][j][1] * Len(PartOfTerm(k)) =
                                    w[i][j][2] * SumConf2d(batch, sel[i], PartOfTerm(k))

\* A pose or expression term weighed by a mean that is no keypoint's
\* confidence, next to a sample it leaves out.
C3_Witness ==
    /\ Computed
    /\ \E k \in DOMAIN losses \cap MeanWeightedTerms :
        /\ losses[k] # ZeroLoss
        /\ Len(losses[k].weight) < Len(batch.samples)
        /\ \E i \in 1 .. Len(losses[k].weight) : losses[k].weight[i][1] = <<1, 2>>

\* -------------------------------------------------------------- train_step
\* The running call: the exception raised so far ("none"), the calls made,
\* requires_grad, the losses dict, the optimizers stepped and the value in
\* hand.  A statement after a raise does nothing.
Ok(st) == st.exc = "none"

Emit(st, op, arg) ==
    IF Ok(st) THEN [st EXCEPT !.trace = Append(@, [op |-> op, arg |-> arg])] ELSE st

Raise(st, e) == IF Ok(st) THEN [st EXCEPT !.exc = e] ELSE st

\* `if self.<net> is not None: features = self.<net>(...)`, c telling whether
\* the network is there
CallIf(c, st, op) == IF c THEN Emit(st, op, "") ELSE st

\* self.head(features): calling None raises TypeError
HeadCall(self, st) ==
    IF self.head THEN Emit(st, "head", "") ELSE Raise(st, "TypeError")

\* optimizer[key].step() only: zero_grad is forgotten
OptCall_no_zero_grad(st, optimizer, key, method) ==
    LET s1 == Emit(st, "optimizer[]", key)
    IN  IF key \notin optimizer
        THEN Raise(s1, "KeyError")
        ELSE IF Ok(s1) /\ method = "step"
             THEN [Emit(s1, method, key) EXCEPT !.steps[key] = @ + 1]
             ELSE s1

\* optimizer[key].zero_grad() / optimizer[key].step()
OptCall(st, optimizer, key, method) ==
    LET s1 == Emit(st, "optimizer[]", key)
    IN  IF key \notin optimizer
        THEN Raise(s1, "KeyError")
        ELSE IF Ok(s1) /\ method = "step"
             THEN [Emit(s1, method, key) EXCEPT !.steps[key] = @ + 1]
             ELSE Emit(s1, method, key)

\* `if self.<net> is not None: optimizer[key].<method>()`
OptCallIf(c, st, optimizer, key, method) ==
    IF c THEN OptCall(st, optimizer, key, method) ELSE st

\* SMPLXImageBodyModelEstimator.make_fake_data / make_real_data return what
\* the abstract methods of the base class return: their body is `pass`.
make_fake_data(predictions, rgrad) == "None"
make_real_data(data_batch) == "None"

\* self.disc(data): the discriminator module is built from the
\* configuration; given None it may raise or return a score.
DiscForward(st, data, disc_raises) ==
    LET s1 == Emit(st, "disc", data)
    IN  IF data = "None" /\ disc_raises THEN Raise(s1, "TypeError") ELSE s1

\* self.loss_adv(score, ...): calling None raises TypeError
LossAdv(self, st) ==
    IF "loss_adv" \in self.losses THEN Emit(st, "loss_adv", "") ELSE Raise(st, "TypeError")

\* set_requires_grad(self.disc, v), as a statement of the running call
SetDiscGrad(self, st, v) ==
    Emit(IF Ok(st)
         THEN [st EXCEPT !.rg = set_requires_grad(@, Single(Attr(self, "disc")), v)]
         ELSE st,
         "set_requires_grad", IF v THEN "True" ELSE "False")

\* optimize_discrinimator without the optimizer step
optimize_discrinimator_no_step(self, st, predictions, data_batch, optimizer, disc_raises) ==
    LET s1 == SetDiscGrad(self, st, TRUE)
        s2 == Emit(s1, "make_fake_data", "False")
        s3 == Emit(s2, "make_real_data", "")
        s4 == DiscForward(s3, make_fake_data(predictions, FALSE), disc_raises)
        s5 == DiscForward(s4, make_real_data(data_batch), disc_raises)
        s6 == LossAdv(self, s5)
        s7 == LossAdv(self, s6)
        s8 == Emit(s7, "_parse_losses", "disc_losses")
        s9 == OptCall(s8, optimizer, "disc", "zero_grad")
    IN  Emit(s9, "backward", "loss_disc")

optimize_discrinimator(self, st, predictions, data_batch, optimizer, disc_raises) ==
    LET s1 == SetDiscGrad(self, st, TRUE)
        fake_data == make_fake_data(predictions, FALSE)
        s2 == Emit(s1, "make_fake_data", "False")
        real_data == make_real_data(data_batch)
        s3 == Emit(s2, "make_real_data", "")
        s4 == DiscForward(s3, fake_data, disc_raises)
        s5 == DiscForward(s4, real_data, disc_raises)
        s6 == LossAdv(self, s5)
        s7 == LossAdv(self, s6)
        s8 == Emit(s7, "_parse_losses", "disc_losses")
        s9 == OptCall(s8, optimizer, "disc", "zero_grad")
        s10 == Emit(s9, "backward", "loss_disc")
    IN  OptCall(s10, optimizer, "disc", "step")

\* Leaves dict(adv_loss=loss_adv) in st.ret.
optimize_generator(self, st, predictions, disc_raises) ==
    LET s1 == SetDiscGrad(self, st, FALSE)
        fake_data == make_fake_data(predictions, TRUE)
        s2 == Emit(s1, "make_fake_data", "True")
        s3 == DiscForward(s2, fake_data, disc_raises)
        s4 == LossAdv(self, s3)
    IN  [s4 EXCEPT !.ret = LossCall("loss_adv", <<fake_data>>, <<>>, NoWeight)]

\* losses = self.compute_losses(predictions, targets), r being what
\* compute_losses returns or raises
ComputeLosses(st, r) ==
    IF Ok(st)
    THEN IF r.exc = "none"
         THEN [Emit(st, "compute_losses", "") EXCEPT !.losses = r.losses]
         ELSE Raise(Emit(st, "compute_losses", ""), r.exc)
    ELSE st

\* `if self.disc is not None: self.optimize_discrinimator(...)`
DiscriminatorPart(self, st, predictions, data_batch, optimizer, disc_raises) ==
    IF self.disc
    THEN optimize_discrinimator(self, st, predictions, data_batch, optimizer, disc_raises)
    ELSE st

\* `if self.disc is not None: adv_loss = self.optimize_generator(predictions);
\* losses.update(adv_loss)`
GeneratorPart(self, st, predictions, disc_raises) ==
    IF self.disc
    THEN LET s1 == optimize_generator(self, st, predictions, disc_raises)
         IN  IF Ok(s1)
             THEN [s1 EXCEPT !.losses =
                        [k \in DOMAIN s1.losses \cup {"adv_loss"} |->
                            IF k = "adv_loss" THEN s1.ret ELSE s1.losses[k]]]
             ELSE s1
    ELSE st

\* train_step with the generator optimised before the discriminator
train_step_generator_first(self, rg, bt, optimizer, disc_raises) ==
    LET data_batch == DataBatch(bt)
        s0 == [exc |-> "none", trace |-> <<>>, rg |-> rg, losses |-> NoLosses,
               steps |-> [k \in OptKeys |-> 0], ret |-> ZeroLoss]
        s1 == CallIf(self.backbone, s0, "backbone")
        s2 == CallIf(self.neck, s1, "neck")
        s3 == HeadCall(self, s2)
        predictions == head_forward(self, data_batch["features"])
        s4 == Emit(s3, "prepare_targets", "")
        s6 == ComputeLosses(s4, compute_losses(self, predictions, data_batch))
        s8 == GeneratorPart(self, s6, predictions, disc_raises)
        s9 == Emit(s8, "_parse_losses", "losses")
        s10 == OptCallIf(self.backbone, s9, optimizer, "backbone", "zero_grad")
        s11 == OptCallIf(self.neck, s10, optimizer, "neck", "zero_grad")
        s12 == OptCallIf(self.head, s11, optimizer, "head", "zero_grad")
        s13 == Emit(s12, "backward", "loss")
        s14 == OptCallIf(self.backbone, s13, optimizer, "backbone", "step")
        s15 == OptCallIf(self.neck, s14, optimizer, "neck", "step")
        s16 == OptCallIf(self.head, s15, optimizer, "head", "step")
        s17 == DiscriminatorPart(self, s16, predictions, data_batch, optimizer, disc_raises)
    IN  Emit(s17, "return", "outputs")

\* Returns the finished call: [exc, trace, rg, losses, steps, ret].
train_step(self, rg, bt, optimizer, disc_raises) ==
    LET data_batch == DataBatch(bt)
        s0 == [exc |-> "none", trace |-> <<>>, rg |-> rg, losses |-> NoLosses,
               steps |-> [k \in OptKeys |-> 0], ret |-> ZeroLoss]
        s1 == CallIf(self.backbone, s0, "backbone")
        features0 == IF self.backbone THEN backbone_forward(data_batch["img"])
                     ELSE data_batch["features"]
        s2 == CallIf(self.neck, s1, "neck")
        features == IF self.neck THEN neck_forward(features0) ELSE features0
        s3 == HeadCall(self, s2)
        predictions == head_forward(self, features)
        s4 == Emit(s3, "prepare_targets", "")
        targets == data_batch
        \* optimize discriminator (if have)
        s5 == DiscriminatorPart(self, s4, predictions, data_batch, optimizer, disc_raises)
        s6 == ComputeLosses(s5, compute_losses(self, predictions, targets))
        \* optimizer generator part
        s8 == GeneratorPart(self, s6, predictions, disc_raises)
        s9 == Emit(s8, "_parse_losses", "losses")
        s10 == OptCallIf(self.backbone, s9, optimizer, "backbone", "zero_grad")
        s11 == OptCallIf(self.neck, s10, optimizer, "neck", "zero_grad")
        s12 == OptCallIf(self.head, s11, optimizer, "head", "zero_grad")
        s13 == Emit(s12, "backward", "loss")
        s14 == OptCallIf(self.backbone, s13, optimizer, "backbone", "step")
        s15 == OptCallIf(self.neck, s14, optimizer, "neck", "step")
        s16 == OptCallIf(self.head, s15, optimizer, "head", "step")
    IN  Emit(s16, "return", "outputs")

\* forward_train running a forward pass instead of raising
forward_train_runs(self, kwargs) ==
    [exc |-> "none", trace |-> <<[op |-> "head", arg |-> ""]>>]

\* forward_train(**kwargs): raises, whatever the keyword arguments
forward_train(self, kwargs) ==
    [exc |-> "NotImplementedError", trace |-> <<>>]

\* ------------------------------------------------------- the training run
TrainLosses == {"loss_keypoints2d", "loss_smplx_betas", "loss_camera"}

TrainCfgs ==
    {[BaseCfg EXCEPT !.backbone = b, !.neck = n, !.head = h, !.disc = d,
                     !.losses = TrainLosses \cup (IF a THEN {"loss_adv"} ELSE {}),
                     !.disc_step = ds] :
        b \in BOOLEAN, n \in BOOLEAN, h \in BOOLEAN, d \in BOOLEAN, a \in BOOLEAN,
        ds \in 1 .. MaxDiscStep}

\* The optimizer dicts of the run: one optimizer for each component that is
\* not None, or one for every component but at most one.
OptimizerDicts(self) ==
    {{k \in OptKeys : self[k]}} \cup {OptKeys \ M : M \in {{}} \cup {{k} : k \in OptKeys}}

\* The keyword arguments forward_train is called with.
KwargSets == {{}, {"img"}, {"img", "img_metas"}}

\* The batches of the run: no sample, or the first sample only, carries the
\* flags.
TrainBatches ==
    {[samples |-> [b \in Samples |->
                    [img |-> b % (MaxVal + 1), gt |-> MaxVal, conf |-> [k \in Keypoints |-> k % 2],
                     has |-> [f \in FlagKeys |-> IF b <= m THEN 1 ELSE 0]]],
      kp_flags |-> TRUE] : m \in 0 .. 1}

Init ==
    /\ cfg \in TrainCfgs
    /\ requires_grad = Construct(cfg)
    /\ call = NoCall
    /\ exc = "none"
    /\ trace = <<>>
    /\ losses = NoLosses
    /\ losses2 = NoLosses
    /\ opt_steps = [k \in OptKeys |-> 0]
    /\ num_calls = 0
    /\ lookup = NoLookup
    /\ batch = NoBatch
    /\ batch2 = NoBatch

\* model.train_step(data_batch, optimizer), called by the runner
TrainStepCall ==
    /\ num_calls < MaxTrainSteps
    /\ \E bt \in TrainBatches, optimizer \in OptimizerDicts(cfg),
          disc_raises \in (IF cfg.disc THEN BOOLEAN ELSE {FALSE}) :
        \E r \in {train_step(cfg, requires_grad, bt, optimizer, disc_raises)} :
            /\ call' = [op |-> "train_step", args |-> optimizer]
            /\ exc' = r.exc
            /\ trace' = r.trace
            /\ losses' = r.losses
            /\ requires_grad' = r.rg
            /\ opt_steps' = [k \in OptKeys |-> opt_steps[k] + r.steps[k]]
            /\ batch' = bt
    /\ num_calls' = num_calls + 1
    /\ UNCHANGED <<cfg, batch2, losses2, lookup>>

\* model.forward_train(**kwargs)
ForwardTrainCall ==
    /\ \E kwargs \in KwargSets :
        \E r \in {forward_train(cfg, kwargs)} :
            /\ exc' = r.exc
            /\ trace' = r.trace
            /\ call' = [op |-> "forward_train", args |-> kwargs]
    /\ losses' = NoLosses
    /\ batch' = NoBatch
    /\ UNCHANGED <<cfg, requires_grad, opt_steps, num_calls, batch2, losses2, lookup>>

Next == TrainStepCall \/ ForwardTrainCall

Spec == Init /\ [][Next]_vars

\* ------------------------------------------- properties of the training run
GenKeys == {"backbone", "neck", "head"}

TrainStepped == call.op = "train_step"
Returned == TrainStepped /\ exc = "none"

\* The positions of a call in the trace of the last call.
At(op, arg) == {i \in 1 .. Len(trace) : trace[i] = [op |-> op, arg |-> arg]}
AtOp(op) == {i \in 1 .. Len(trace) : trace[i].op = op}

Before(I, J) == \A i \in I, j \in J : i < j

\* The calls that optimise the discriminator and the generator.
DiscOptAt == At("optimizer[]", "disc") \cup At("zero_grad", "disc")
             \cup At("backward", "loss_disc") \cup At("step", "disc")
GenOptAt == UNION {At("optimizer[]", k) \cup At("zero_grad", k) \cup At("step", k) :
                    k \in GenKeys}
            \cup At("backward", "loss")

\* C4: in a train_step with a discriminator the predictions and targets are
\* obtained first, then the discriminator is optimised, then the generator:
\* no optimizer of backbone, neck or head is used before the discriminator
\* optimizer's step.
C4_DiscriminatorBeforeGenerator ==
    (TrainStepped /\ cfg.disc) =>
        /\ Before(At("head", "") \cup At("prepare_targets", ""), DiscOptAt \cup AtOp("disc"))
        /\ Before(DiscOptAt, GenOptAt)
        /\ GenOptAt # {} => At("step", "disc") # {}

\* A train_step with a discriminator that returned.
C4_Witness ==
    /\ Returned
    /\ cfg.disc
    /\ At("step", "disc") # {}
    /\ At("step", "head") # {}
    /\ At("step", "backbone") # {}

\* C5 as stated: with disc_step = n > 1 the generator optimizers step once
\* per n steps of the discriminator optimizer.
C5_GeneratorOncePerDiscStep ==
    (Returned /\ cfg.disc /\ cfg.disc_step > 1) =>
        \A k \in GenKeys :
            cfg[k] => opt_steps[k] = opt_steps["disc"] \div cfg.disc_step

\* What compute_losses returns on the batch of the last call.
ComputedLosses ==
    compute_losses(cfg, head_forward(cfg, DataBatch(batch)["features"]),
                   DataBatch(batch)).losses

C8_DiscriminatorInputNotNone ==
    TrainStepped => \A i \in AtOp("disc") : trace[i].arg # "None"

\* C9: every call of forward_train raises NotImplementedError, makes no call
\* and leaves the estimator and the optimizers as they were.
C9_ForwardTrainRaises ==
    [][call'.op = "forward_train" =>
            /\ exc' = "NotImplementedError"
            /\ trace' = <<>>
            /\ UNCHANGED <<cfg, requires_grad, opt_steps, num_calls>>]_vars

\* forward_train was called on an estimator that has been trained.
C9_Witness ==
    /\ call.op = "forward_train"
    /\ call.args # {}
    /\ exc = "NotImplementedError"
    /\ opt_steps["head"] > 0

\* ------------------------------------------------ set_requires_grad, alone
\* The networks the estimator passes to set_requires_grad, and None.
GradNets == {"disc", "body_model_train", "body_model_test", "None"}

RECURSIVE SeqsUpTo(_, _)
SeqsUpTo(S, n) ==
    IF n = 0 THEN {<<>>}
    ELSE SeqsUpTo(S, n - 1)
         \cup {Append(q, x) : q \in {r \in SeqsUpTo(S, n - 1) : Len(r) = n - 1}, x \in S}

NetArgs == {Single(n) : n \in GradNets} \cup {List(q) : q \in SeqsUpTo(GradNets, MaxListLen)}

InitGrad ==
    /\ cfg = BaseCfg
    /\ requires_grad \in {Construct(cfg),
                          [n \in Nets |-> [p \in Params |-> TRUE]],
                          [n \in Nets |-> [p \in Params |-> p % 2 = 1]]}
    /\ call = NoCall
    /\ exc = "none"
    /\ trace = <<>>
    /\ losses = NoLosses
    /\ losses2 = NoLosses
    /\ opt_steps = [k \in OptKeys |-> 0]
    /\ num_calls = 0
    /\ lookup = NoLookup
    /\ batch = NoBatch
    /\ batch2 = NoBatch

\* set_requires_grad(nets, requires_grad)
SetRequiresGradCall ==
    /\ \E nets \in NetArgs, v \in BOOLEAN :
        /\ requires_grad' = set_requires_grad(requires_grad, nets, v)
        /\ call' = [op |-> "set_requires_grad", args |-> [nets |-> nets, v |-> v]]
    /\ UNCHANGED <<cfg, exc, trace, losses, losses2, opt_steps, num_calls, batch, batch2,
                   lookup>>

NextGrad == SetRequiresGradCall

SpecGrad == InitGrad /\ [][NextGrad]_vars

\* The networks named by a nets argument: the network itself, or the
\* entries of the list, None left out.
NamedNets(nets) ==
    (IF nets.list THEN {nets.items[i] : i \in 1 .. Len(nets.items)} ELSE {nets.net})
    \ {"None"}

\* C10: after set_requires_grad(nets, v) every parameter of every network
\* named by nets, a single network or a list, has requires_grad v; None is
\* skipped, the call returns, and every other parameter is as before.
C10_SetsNamedNetsOnly ==
    [][call'.op = "set_requires_grad" =>
            /\ exc' = "none"
            /\ DOMAIN requires_grad' = Nets
            /\ \A n \in Nets :
                /\ DOMAIN requires_grad'[n] = Params
                /\ \A p \in Params :
                    requires_grad'[n][p] =
                        IF n \in NamedNets(call'.args.nets)
                        THEN call'.args.v
                        ELSE requires_grad[n][p]]_vars

\* A list with a None and a network was given, and another network keeps
\* parameters that differ from the value set.
C10_Witness ==
    /\ call.op = "set_requires_grad"
    /\ call.args.nets.list
    /\ \E i, j \in 1 .. Len(call.args.nets.items) :
        /\ call.args.nets.items[i] = "None"
        /\ call.args.nets.items[j] # "None"
        /\ \A p \in Params : requires_grad[call.args.nets.items[j]][p] = call.args.v
    /\ \E n \in Nets \ NamedNets(call.args.nets), p, q \in Params :
        /\ requires_grad[n][p] # call.args.v
        /\ requires_grad[n][q] = call.args.v

\* ---------------------------------------------------- keypoint conventions
OPENPOSE_135_KEYPOINTS ==
    <<"nose", "left_eye", "right_eye", "left_ear",
      "right_ear", "left_shoulder", "right_shoulder", "left_elbow",
      "right_elbow", "left_wrist", "right_wrist", "left_hip",
      "right_hip", "left_knee", "right_knee", "left_ankle",
      "right_ankle", "neck", "head", "left_bigtoe",
      "left_smalltoe", "left_heel", "right_bigtoe", "right_smalltoe",
      "right_heel", "left_thumb_1", "left_thumb_2", "left_thumb_3",
      "left_thumb", "left_index_1", "left_index_2", "left_index_3",
      "left_index", "left_middle_1", "left_middle_2", "left_middle_3",
      "left_middle", "left_ring_1", "left_ring_2", "left_ring_3",
      "left_ring", "left_pinky_1", "left_pinky_2", "left_pinky_3",
      "left_pinky", "right_thumb_1", "right_thumb_2", "right_thumb_3",
      "right_thumb", "right_index_1", "right_index_2", "right_index_3",
      "right_index", "right_middle_1", "right_middle_2", "right_middle_3",
      "right_middle", "right_ring_1", "right_ring_2", "right_ring_3",
      "right_ring", "right_pinky_1", "right_pinky_2", "right_pinky_3",
      "right_pinky", "right_contour_1", "right_contour_2", "right_contour_3",
      "right_contour_4", "right_contour_5", "right_contour_6", "right_contour_7",
      "right_contour_8", "contour_middle", "left_contour_8", "left_contour_7",
      "left_contour_6", "left_contour_5", "left_contour_4", "left_contour_3",
      "left_contour_2", "left_contour_1", "right_eyebrow_1", "right_eyebrow_2",
      "right_eyebrow_3", "right_eyebrow_4", "right_eyebrow_5", "left_eyebrow_5",
      "left_eyebrow_4", "left_eyebrow_3", "left_eyebrow_2", "left_eyebrow_1",
      "nosebridge_1", "nosebridge_2", "nosebridge_3", "nosebridge_4",
      "right_nose_2", "right_nose_1", "nose_middle", "left_nose_1",
      "left_nose_2", "right_eye_1", "right_eye_2", "right_eye_3",
      "right_eye_4", "right_eye_5", "right_eye_6", "left_eye_4",
      "left_eye_3", "left_eye_2", "left_eye_1", "left_eye_6",
      "left_eye_5", "right_mouth_1", "right_mouth_2", "right_mouth_3",
      "mouth_top", "left_mouth_3", "left_mouth_2", "left_mouth_1",
      "left_mouth_5", "left_mouth_4", "mouth_bottom", "right_mouth_4",
      "right_mouth_5", "right_lip_1", "right_lip_2", "lip_top",
      "left_lip_2", "left_lip_1", "left_lip_3", "lip_bottom",
      "right_lip_3", "right_eyeball", "left_eyeball">>

\* OPENPOSE_25_KEYPOINTS with the two eyes in the order of OPENPOSE_135_KEYPOINTS
OPENPOSE_25_KEYPOINTS_left_eye_first ==
    <<"nose_openpose", "neck_openpose", "right_shoulder_openpose",
      "right_elbow_openpose", "right_wrist_openpose", "left_shoulder_openpose",
      "left_elbow_openpose", "left_wrist_openpose", "pelvis_openpose",
      "right_hip_openpose", "right_knee_openpose", "right_ankle_openpose",
      "left_hip_openpose", "left_knee_openpose", "left_ankle_openpose",
      "left_eye_openpose", "right_eye_openpose", "right_ear_openpose",
      "left_ear_openpose", "left_bigtoe_openpose", "left_smalltoe_openpose",
      "left_heel_openpose", "right_bigtoe_openpose", "right_smalltoe_openpose",
      "right_heel_openpose">>

OPENPOSE_25_KEYPOINTS ==
    <<"nose_openpose", "neck_openpose", "right_shoulder_openpose",
      "right_elbow_openpose", "right_wrist_openpose", "left_shoulder_openpose",
      "left_elbow_openpose", "left_wrist_openpose", "pelvis_openpose",
      "right_hip_openpose", "right_knee_openpose", "right_ankle_openpose",
      "left_hip_openpose", "left_knee_openpose", "left_ankle_openpose",
      "right_eye_openpose", "left_eye_openpose", "right_ear_openpose",
      "left_ear_openpose", "left_bigtoe_openpose", "left_smalltoe_openpose",
      "left_heel_openpose", "right_bigtoe_openpose", "right_smalltoe_openpose",
      "right_heel_openpose">>

OPENPOSE_118_KEYPOINTS ==
    <<"nose_openpose", "neck_openpose", "right_shoulder_openpose", "right_elbow_openpose",
      "right_wrist_openpose", "left_shoulder_openpose", "left_elbow_openpose", "left_wrist_openpose",
      "pelvis_openpose", "right_hip_openpose", "right_knee_openpose", "right_ankle_openpose",
      "left_hip_openpose", "left_knee_openpose", "left_ankle_openpose", "right_eye_openpose",
      "left_eye_openpose", "right_ear_openpose", "left_ear_openpose", "left_bigtoe_openpose",
      "left_smalltoe_openpose", "left_heel_openpose", "right_bigtoe_openpose", "right_smalltoe_openpose",
      "right_heel_openpose", "left_wrist", "left_thumb_1", "left_thumb_2",
      "left_thumb_3", "left_thumb", "left_index_1", "left_index_2",
      "left_index_3", "left_index", "left_middle_1", "left_middle_2",
      "left_middle_3", "left_middle", "left_ring_1", "left_ring_2",
      "left_ring_3", "left_ring", "left_pinky_1", "left_pinky_2",
      "left_pinky_3", "left_pinky", "right_wrist", "right_thumb_1",
      "right_thumb_2", "right_thumb_3", "right_thumb", "right_index_1",
      "right_index_2", "right_index_3", "right_index", "right_middle_1",
      "right_middle_2", "right_middle_3", "right_middle", "right_ring_1",
      "right_ring_2", "right_ring_3", "right_ring", "right_pinky_1",
      "right_pinky_2", "right_pinky_3", "right_pinky", "right_eyebrow_1",
      "right_eyebrow_2", "right_eyebrow_3", "right_eyebrow_4", "right_eyebrow_5",
      "left_eyebrow_5", "left_eyebrow_4", "left_eyebrow_3", "left_eyebrow_2",
      "left_eyebrow_1", "nosebridge_1", "nosebridge_2", "nosebridge_3",
      "nosebridge_4", "right_nose_2", "right_nose_1", "nose_middle",
      "left_nose_1", "left_nose_2", "right_eye_1", "right_eye_2",
      "right_eye_3", "right_eye_4", "right_eye_5", "right_eye_6",
      "left_eye_4", "left_eye_3", "left_eye_2", "left_eye_1",
      "left_eye_6", "left_eye_5", "right_mouth_1", "right_mouth_2",
      "right_mouth_3", "mouth_top", "left_mouth_3", "left_mouth_2",
      "left_mouth_1", "left_mouth_5", "left_mouth_4", "mouth_bottom",
      "right_mouth_4", "right_mouth_5", "right_lip_1", "right_lip_2",
      "lip_top", "left_lip_2", "left_lip_1", "left_lip_3",
      "lip_bottom", "right_lip_3">>

OPENPOSE_JOINTS ==
    <<"nose", "neck", "right_shoulder", "right_elbow",
      "right_wrist", "left_shoulder", "left_elbow", "left_wrist",
      "pelvis", "right_hip", "right_knee", "right_ankle",
      "left_hip", "left_knee", "left_ankle", "right_eye",
      "left_eye", "right_ear", "left_ear", "left_wrist",
      "left_thumb_1", "left_thumb_2", "left_thumb_3", "left_thumb",
      "left_index_1", "left_index_2", "left_index_3", "left_index",
      "left_middle_1", "left_middle_2", "left_middle_3", "left_middle",
      "left_ring_1", "left_ring_2", "left_ring_3", "left_ring",
      "left_pinky_1", "left_pinky_2", "left_pinky_3", "left_pinky",
      "right_wrist", "right_thumb_1", "right_thumb_2", "right_thumb_3",
      "right_thumb", "right_index_1", "right_index_2", "right_index_3",
      "right_index", "right_middle_1", "right_middle_2", "right_middle_3",
      "right_middle", "right_ring_1", "right_ring_2", "right_ring_3",
      "right_ring", "right_pinky_1", "right_pinky_2", "right_pinky_3",
      "right_pinky", "right_contour_1", "right_contour_2", "right_contour_3",
      "right_contour_4", "right_contour_5", "right_contour_6", "right_contour_7",
      "right_contour_8", "contour_middle", "left_contour_8", "left_contour_7",
      "left_contour_6", "left_contour_5", "left_contour_4", "left_contour_3",
      "left_contour_2", "left_contour_1", "right_eye_brow_1", "right_eye_brow_2",
      "right_eye_brow_3", "right_eye_brow_4", "right_eye_brow_5", "left_eye_brow_5",
      "left_eye_brow_4", "left_eye_brow_3", "left_eye_brow_2", "left_eye_brow_1",
      "nosebridge_1", "nosebridge_2", "nosebridge_3", "nosebridge_4",
      "right_nose_2", "right_nose_1", "nose_middle", "left_nose_1",
      "left_nose_2", "right_eye_1", "right_eye_2", "right_eye_3",
      "right_eye_4", "right_eye_5", "right_eye_6", "left_eye_4",
      "left_eye_3", "left_eye_2", "left_eye_1", "left_eye_6",
      "left_eye_5", "right_mouth_1", "right_mouth_2", "right_mouth_3",
      "mouth_top", "left_mouth_3", "left_mouth_2", "left_mouth_1",
      "left_mouth_5", "left_mouth_4", "mouth_bottom", "right_mouth_4",
      "right_mouth_5", "right_lip_1", "right_lip_2", "lip_top",
      "left_lip_2", "left_lip_1", "left_lip_3", "lip_bottom",
      "right_lip_3", "right_eye_undefined", "left_eye_undefined">>

\* OPENPOSE_FEET_KEYPOINTS without the right heel
OPENPOSE_FEET_KEYPOINTS_no_right_heel ==
    <<"left_bigtoe", "left_smalltoe", "left_heel",
      "right_bigtoe", "right_smalltoe">>

OPENPOSE_FEET_KEYPOINTS ==
    <<"left_bigtoe", "left_smalltoe", "left_heel",
      "right_bigtoe", "right_smalltoe", "right_heel">>

\* list[a:b]
Slice(list, a, b) == SubSeq(list, a + 1, b)

OPENPOSE_137_KEYPOINTS ==
    Slice(OPENPOSE_JOINTS, 0, 19) \o OPENPOSE_FEET_KEYPOINTS
        \o Slice(OPENPOSE_JOINTS, 19, Len(OPENPOSE_JOINTS))

\* The conventions by the name they are looked up with.
ConventionNames == {"openpose_25", "openpose_118", "openpose_135", "openpose_137"}

KEYPOINTS_FACTORY ==
    [c \in ConventionNames |->
        CASE c = "openpose_25" -> OPENPOSE_25_KEYPOINTS
          [] c = "openpose_118" -> OPENPOSE_118_KEYPOINTS
          [] c = "openpose_135" -> OPENPOSE_135_KEYPOINTS
          [] c = "openpose_137" -> OPENPOSE_137_KEYPOINTS]

\* list.index(name): the first index, counted from 0, at which the list holds
\* name; -1 stands for a name the list does not hold.
index(list, name) ==
    IF \E i \in 1 .. Len(list) : list[i] = name
    THEN (CHOOSE i \in 1 .. Len(list) :
            /\ list[i] = name
            /\ \A j \in 1 .. i - 1 : list[j] # name) - 1
    ELSE -1

\* Keypoint i of convention src, looked up by name in src and in dst.
LookUp(src, dst, i) ==
    LET name == KEYPOINTS_FACTORY[src][i + 1]
    IN  [src |-> src, dst |-> dst, i |-> i, name |-> name,
         src_idx |-> index(KEYPOINTS_FACTORY[src], name),
         dst_idx |-> index(KEYPOINTS_FACTORY[dst], name)]

\* --------------------------------------------- mapping between conventions
InitMapping ==
    /\ cfg = BaseCfg
    /\ requires_grad = Construct(cfg)
    /\ call = NoCall
    /\ exc = "none"
    /\ trace = <<>>
    /\ losses = NoLosses
    /\ losses2 = NoLosses
    /\ opt_steps = [k \in OptKeys |-> 0]
    /\ num_calls = 0
    /\ batch = NoBatch
    /\ batch2 = NoBatch
    /\ lookup = NoLookup

\* A mapping from convention src to convention dst starts at keypoint 0.
GetMappingCall ==
    /\ lookup = NoLookup
    /\ \E src \in ConventionNames, dst \in ConventionNames :
        lookup' = LookUp(src, dst, 0)
    /\ UNCHANGED <<cfg, requires_grad, call, exc, trace, losses, losses2, opt_steps,
                   num_calls, batch, batch2>>

\* The mapping goes on to the next keypoint of src.
NextKeypoint ==
    /\ lookup # NoLookup
    /\ lookup.i + 1 < Len(KEYPOINTS_FACTORY[lookup.src])
    /\ lookup' = LookUp(lookup.src, lookup.dst, lookup.i + 1)
    /\ UNCHANGED <<cfg, requires_grad, call, exc, trace, losses, losses2, opt_steps,
                   num_calls, batch, batch2>>

NextMapping == GetMappingCall \/ NextKeypoint

SpecMapping == InitMapping /\ [][NextMapping]_vars

\* --------------------------------------------- properties of the conventions
\* The sizes of the parts as the module documents them.
DocumentedParts ==
    [c \in ConventionNames |->
        CASE c = "openpose_25" -> [body |-> 25, hand |-> 0, face |-> 0]
          [] c = "openpose_118" -> [body |-> 25, hand |-> 42, face |-> 51]
          [] c = "openpose_135" -> [body |-> 25, hand |-> 40, face |-> 70]
          [] c = "openpose_137" -> [body |-> 27, hand |-> 40, face |-> 70]]

\* The sizes of the consecutive parts of the lists: in OPENPOSE_137_KEYPOINTS
\* each hand is led by its wrist, as in OPENPOSE_118_KEYPOINTS.
ConsecutiveParts ==
    [DocumentedParts EXCEPT !["openpose_137"] = [body |-> 25, hand |-> 42, face |-> 70]]

\* The finger keypoints, by the hand part of OPENPOSE_135_KEYPOINTS.
FingerNames == {OPENPOSE_135_KEYPOINTS[i] : i \in 26 .. 65}
WristNames == {"left_wrist", "right_wrist"}

\* list is a body part, a hand part and a face part of the given sizes, one
\* after the other: every finger is in the hand part, and the hand part holds
\* fingers and wrists only.
Layout(list, parts) ==
    /\ Len(list) = parts.body + parts.hand + parts.face
    /\ \A i \in 1 .. Len(list) :
        LET in_hand == i > parts.body /\ i <= parts.body + parts.hand
        IN  /\ list[i] \in FingerNames => in_hand
            /\ in_hand => list[i] \in FingerNames \cup WristNames
    /\ Cardinality({i \in 1 .. Len(list) : list[i] \in FingerNames})
            = IF parts.hand = 0 THEN 0 ELSE 40

\* The entries of list that are neither fingers nor in its face part.
BodyEntries(list, parts) ==
    {i \in 1 .. parts.body + parts.hand : list[i] \notin FingerNames}

NotWrist(name) == name \notin WristNames

\* The hand and face keypoints of a list of at least 135 entries: what
\* follows the 25 body keypoints, the wrists left out.
HandAndFace(list) == SelectSeq(Slice(list, 25, Len(list)), NotWrist)
HandPart(list) == Slice(HandAndFace(list), 0, 40)
FacePart(list) == Slice(HandAndFace(list), 40, Len(HandAndFace(list)))

\* C12 as stated: the 40 hand names and the 70 face names of
\* OPENPOSE_137_KEYPOINTS are those of OPENPOSE_135_KEYPOINTS in the same
\* order, so a hand or face keypoint of the one is found by name in the other
\* at the same place of the part.
C12_HandAndFaceShared ==
    (lookup.src = "openpose_137" /\ lookup.dst = "openpose_135") =>
        /\ Len(HandPart(OPENPOSE_137_KEYPOINTS)) = 40
        /\ Len(FacePart(OPENPOSE_137_KEYPOINTS)) = 70
        /\ HandPart(OPENPOSE_137_KEYPOINTS) = HandPart(OPENPOSE_135_KEYPOINTS)
        /\ FacePart(OPENPOSE_137_KEYPOINTS) = FacePart(OPENPOSE_135_KEYPOINTS)
        /\ (lookup.i >= 25 /\ NotWrist(lookup.name)) => lookup.dst_idx >= 25

\* C13: OPENPOSE_118_KEYPOINTS[i] equals OPENPOSE_25_KEYPOINTS[i] for every
\* index i in 0..24, so a keypoint of the one is found by name in the other at
\* its own index.
C13_First25Shared ==
    /\ (lookup.src = "openpose_25" /\ lookup.dst = "openpose_118") =>
            /\ lookup.dst_idx = lookup.i
            /\ OPENPOSE_118_KEYPOINTS[lookup.i + 1] = OPENPOSE_25_KEYPOINTS[lookup.i + 1]
    /\ (lookup.src = "openpose_118" /\ lookup.dst = "openpose_25" /\ lookup.i < 25) =>
            lookup.dst_idx = lookup.i
    /\ lookup.src \in {"openpose_25", "openpose_118"} =>
            /\ Len(OPENPOSE_25_KEYPOINTS) = 25
            /\ Slice(OPENPOSE_118_KEYPOINTS, 0, 25) = OPENPOSE_25_KEYPOINTS

\* The mapping from OPENPOSE_25_KEYPOINTS to OPENPOSE_118_KEYPOINTS reached
\* the last body keypoint.
C13_Witness ==
    /\ lookup.src = "openpose_25"
    /\ lookup.dst = "openpose_118"
    /\ lookup.i = 24
    /\ lookup.name = "right_heel_openpose"
    /\ lookup.dst_idx = 24

\* C14 as stated: in every convention every keypoint name occurs at exactly
\* one index, so the lookup of the name of keypoint i gives i back.
C14_NameAtOneIndex ==
    lookup.src # "none" =>
        /\ lookup.src_idx = lookup.i
        /\ \A i, j \in 1 .. Len(KEYPOINTS_FACTORY[lookup.src]) :
                KEYPOINTS_FACTORY[lookup.src][i] = KEYPOINTS_FACTORY[lookup.src][j] => i = j

====
